---- MODULE Spec2Model ----
(***************************************************************************)
(* Model of src/Python/setup.py, the build descriptor of the qsharp Python *)
(* package.  The script is one straight-line module body:                  *)
(*   version = os.environ.get('PYTHON_VERSION', '0.0.0.1')                 *)
(*   with open('./qsharp/version.py', 'w') as f: f.write(f'''...''')       *)
(*   with open("./README.md", "r") as fh: long_description = fh.read()     *)
(*   setuptools.setup(...)                                                 *)
(* The state is the process environment, the two files, the script's       *)
(* variables and its position.  Text is a sequence of atoms: one-character *)
(* strings for the characters of the version, and one atom for each fixed  *)
(* piece of the template.                                                  *)
(***************************************************************************)
EXTENDS Integers, Sequences, FiniteSets, TLC

VARIABLES environ, versionFile, outWritable, readme, pc, version, f,
          long_description, setupCalls, exc, trace, run, prevOutput

vars == <<environ, versionFile, outWritable, readme, pc, version, f,
          long_description, setupCalls, exc, trace, run, prevOutput>>

\* ---------------------------------------------------------------- bounds
\* longest value of PYTHON_VERSION that is enumerated
MaxLen == 3
\* number of invocations of the script over the same file system
MaxRuns == 2

\* ---------------------------------------------------------------- text
QUOTE == "\""
BSLASH == "\\"
NL == "\n"

\* Characters a value of PYTHON_VERSION is built from: version characters
\* and the characters that are special inside a Python "..." literal.
Alphabet == {"1", ".", QUOTE, BSLASH, "n"}

RECURSIVE StringsUpTo(_)
StringsUpTo(n) ==
    IF n = 0 THEN {<<>>}
    ELSE LET shorter == StringsUpTo(n - 1)
         IN  shorter \cup {Append(s, c) : s \in shorter, c \in Alphabet}

\* An optional value: a variable that is unbound, an environment variable
\* that is unset, a file that does not exist.
None == [present |-> FALSE, value |-> <<>>]
Some(v) == [present |-> TRUE, value |-> v]

\* ---------------------------------------------------------------- the script
\* The fallback literal of os.environ.get('PYTHON_VERSION', '0.0.0.1').
DefaultVersionShort == <<"0", ".", "0", ".", "1">>
DefaultVersion == <<"0", ".", "0", ".", "0", ".", "1">>

\* dict.get(key, default): the default only when the key is absent.
EnvironGetFalsy(env, default) ==
    IF env.present /\ env.value # <<>> THEN env.value ELSE default
EnvironGet(env, default) ==
    IF env.present THEN env.value ELSE default

\* The fixed lines of the f-string before the assignment, one atom a line.
Header == << "# Auto-generated file, do not edit.\n",
             "##\n",
             "# version.py: Specifies the version of the qsharp package.\n",
             "##\n",
             "# Copyright (c) Microsoft Corporation. All rights reserved.\n",
             "# Licensed under the MIT License.\n",
             "##\n" >>

\* The text of the assignment up to and including the opening quote.
Prefix == "__version__ = \""

\* The f-string written to ./qsharp/version.py: {version} is interpolated
\* as it is, with no escaping.
VersionPyDefault(v) == Header \o <<Prefix>> \o DefaultVersion \o <<QUOTE, NL>>
VersionPy(v) == Header \o <<Prefix>> \o v \o <<QUOTE, NL>>

\* open(path, 'w') truncates an existing file and creates a missing one.
OpenAppend(file) == IF file.present THEN file ELSE Some(<<>>)
OpenWrite(file) == Some(<<>>)

\* The statements of the module body, in program order.
ProgramReadmeFirst == << "getenv", "open_readme", "read_readme", "close_readme",
                         "open_out", "write_out", "close_out", "setup" >>
Program == << "getenv", "open_out", "write_out", "close_out",
              "open_readme", "read_readme", "close_readme", "setup" >>

IndexOf(step) == CHOOSE i \in 1..Len(Program) : Program[i] = step

\* Position after a statement that completed.
Succ(step) ==
    IF IndexOf(step) = Len(Program) THEN "done" ELSE Program[IndexOf(step) + 1]

\* Position after a statement that raised: the module body has no
\* try/except, so the exception leaves the script.
RaiseSwallowed(step) == Succ(step)
Raise(step) == "failed"

\* install_requires of the setup() call, each requirement as its name and
\* its version specifier (empty for a bare name).
InstallRequiresPinned == << [name |-> "jupyter_client", specifier |-> ">=5"] >>
install_requires == << [name |-> "jupyter_client", specifier |-> ""] >>

\* The keyword arguments of the setuptools.setup call.
SetupArgs(v, descr) ==
    [ name |-> "qsharp",
      version |-> v,
      author |-> "Microsoft",
      long_description |-> descr,
      long_description_content_type |-> "text/markdown",
      install_requires |-> install_requires ]

\* ---------------------------------------------------------------- import
\* What `import qsharp.version` makes of the generated file: the header
\* lines are comments, and the last line assigns to __version__ whatever
\* Python reads between Prefix's opening quote and the end of the line.
\* Over Alphabet that text is a valid expression only when it is a run of
\* adjacent string literals, which Python concatenates.
SyntaxError == [ok |-> FALSE, value |-> <<>>]

OctalDigits == {"0", "1"}
OctalValue(c) == IF c = "1" THEN 1 ELSE 0

\* The character with code point n, written by a backslash-octal escape.
Chr(n) == "chr" \o ToString(n)

\* Number of octal digits (at most three) at s[i], s[i+1], ...
OctalRun(s, i) ==
    IF i + 2 <= Len(s) /\ s[i + 1] \in OctalDigits /\ s[i + 2] \in OctalDigits THEN 3
    ELSE IF i + 1 <= Len(s) /\ s[i + 1] \in OctalDigits THEN 2
    ELSE 1

\* The escape sequence whose backslash is s[i] and whose next character is
\* s[i+1]: the characters it stands for and how many characters it takes.
\* An unrecognised escape stays in the string, backslash included.
Escape(s, i) ==
    LET c == s[i + 1] IN
    IF c = BSLASH THEN [chars |-> <<BSLASH>>, len |-> 2]
    ELSE IF c = QUOTE THEN [chars |-> <<QUOTE>>, len |-> 2]
    ELSE IF c = "n" THEN [chars |-> <<NL>>, len |-> 2]
    ELSE IF c \in OctalDigits
    THEN LET k == OctalRun(s, i + 1)
             v == IF k = 3 THEN 64 * OctalValue(s[i + 1]) + 8 * OctalValue(s[i + 2])
                                + OctalValue(s[i + 3])
                  ELSE IF k = 2 THEN 8 * OctalValue(s[i + 1]) + OctalValue(s[i + 2])
                  ELSE OctalValue(s[i + 1])
         IN  [chars |-> <<Chr(v)>>, len |-> 1 + k]
    ELSE [chars |-> <<BSLASH, c>>, len |-> 2]

IsTripleQuote(s, i) ==
    /\ i + 2 <= Len(s)
    /\ s[i] = QUOTE /\ s[i + 1] = QUOTE /\ s[i + 2] = QUOTE

\* Inside a "..." literal from s[i] on.  The end of s is the end of the
\* last line of the file, so a literal still open there is unterminated
\* (a final backslash continues the line into the end of the file).
RECURSIVE ScanShort(_, _, _)
ScanShort(s, i, acc) ==
    IF i > Len(s) THEN [ok |-> FALSE, value |-> <<>>, next |-> i]
    ELSE IF s[i] = QUOTE THEN [ok |-> TRUE, value |-> acc, next |-> i + 1]
    ELSE IF s[i] = BSLASH
    THEN IF i = Len(s) THEN [ok |-> FALSE, value |-> <<>>, next |-> i]
         ELSE LET e == Escape(s, i) IN ScanShort(s, i + e.len, acc \o e.chars)
    ELSE ScanShort(s, i + 1, Append(acc, s[i]))

\* Inside a """...""" literal from s[i] on.
RECURSIVE ScanLong(_, _, _)
ScanLong(s, i, acc) ==
    IF i > Len(s) THEN [ok |-> FALSE, value |-> <<>>, next |-> i]
    ELSE IF IsTripleQuote(s, i) THEN [ok |-> TRUE, value |-> acc, next |-> i + 3]
    ELSE IF s[i] = BSLASH
    THEN IF i = Len(s) THEN [ok |-> FALSE, value |-> <<>>, next |-> i]
         ELSE LET e == Escape(s, i) IN ScanLong(s, i + e.len, acc \o e.chars)
    ELSE ScanLong(s, i + 1, Append(acc, s[i]))

\* The adjacent string literals of s from s[i] on, concatenated.
RECURSIVE Literals(_, _, _, _)
Literals(s, i, acc, count) ==
    IF i > Len(s)
    THEN IF count > 0 THEN [ok |-> TRUE, value |-> acc] ELSE SyntaxError
    ELSE IF s[i] # QUOTE THEN SyntaxError
    ELSE LET lit == IF IsTripleQuote(s, i) THEN ScanLong(s, i + 3, <<>>)
                    ELSE ScanShort(s, i + 1, <<>>)
         IN  IF lit.ok THEN Literals(s, lit.next, acc \o lit.value, count + 1)
             ELSE SyntaxError

\* __version__ after importing a file with the given content.
Import(content) ==
    LET h == Len(Header) IN
    IF /\ Len(content) >= h + 2
       /\ SubSeq(content, 1, h) = Header
       /\ content[h + 1] = Prefix
       /\ content[Len(content)] = NL
    THEN Literals(<<QUOTE>> \o SubSeq(content, h + 2, Len(content) - 1), 1, <<>>, 0)
    ELSE SyntaxError

\* ---------------------------------------------------------------- files
\* ./README.md: missing, present without read permission, present with
\* bytes that do not decode, or readable text.
NoPerm == "noperm"
BadBytes == "badbytes"
ReadmeTexts == { <<>>, <<"# Q# Interoperability for Python\n">> }
ReadmeStates == { [present |-> FALSE, mode |-> "ok", value |-> <<>>] }
                \cup { [present |-> TRUE, mode |-> m, value |-> <<>>] : m \in {NoPerm, BadBytes} }
                \cup { [present |-> TRUE, mode |-> "ok", value |-> t] : t \in ReadmeTexts }

\* What ./qsharp/version.py may hold before the first run.
PriorContents == { None, Some(<<>>), Some(<<"garbage\n">>), Some(VersionPy(<<"9">>)) }

EnvValues == {None} \cup {Some(s) : s \in StringsUpTo(MaxLen)}

Init ==
    /\ environ \in EnvValues
    /\ versionFile \in PriorContents
    /\ outWritable \in BOOLEAN
    /\ readme \in ReadmeStates
    /\ pc = "getenv"
    /\ version = None
    /\ f = None
    /\ long_description = None
    /\ setupCalls = <<>>
    /\ exc = "none"
    /\ trace = <<>>
    /\ run = 1
    /\ prevOutput = versionFile

\* A statement completes / raises.
Pass(step) == /\ pc' = Succ(step)
              /\ trace' = Append(trace, step)
              /\ exc' = exc
Fail(step) == /\ pc' = Raise(step)
              /\ trace' = Append(trace, step)
              /\ exc' = step

\* version = os.environ.get('PYTHON_VERSION', '0.0.0.1')
GetEnv ==
    /\ pc = "getenv"
    /\ version' = Some(EnvironGet(environ, DefaultVersion))
    /\ Pass("getenv")
    /\ UNCHANGED <<environ, versionFile, outWritable, readme, f,
                   long_description, setupCalls, run, prevOutput>>

\* open('./qsharp/version.py', 'w')
OpenOut ==
    /\ pc = "open_out"
    /\ IF outWritable
       THEN /\ versionFile' = OpenWrite(versionFile)
            /\ f' = Some(<<>>)
            /\ Pass("open_out")
       ELSE /\ Fail("open_out")
            /\ UNCHANGED <<versionFile, f>>
    /\ UNCHANGED <<environ, outWritable, readme, version,
                   long_description, setupCalls, run, prevOutput>>

\* f.write(f'''...{version}...'''): the text goes to the file object's buffer
WriteOut ==
    /\ pc = "write_out"
    /\ f' = Some(f.value \o VersionPy(version.value))
    /\ Pass("write_out")
    /\ UNCHANGED <<environ, versionFile, outWritable, readme, version,
                   long_description, setupCalls, run, prevOutput>>

\* leaving the with block: the buffer is flushed and the file closed
CloseOut ==
    /\ pc = "close_out"
    /\ versionFile' = Some(versionFile.value \o f.value)
    /\ f' = None
    /\ Pass("close_out")
    /\ UNCHANGED <<environ, outWritable, readme, version,
                   long_description, setupCalls, run, prevOutput>>

\* open("./README.md", "r")
OpenReadme ==
    /\ pc = "open_readme"
    /\ IF readme.present /\ readme.mode # NoPerm
       THEN Pass("open_readme")
       ELSE Fail("open_readme")
    /\ UNCHANGED <<environ, versionFile, outWritable, readme, version, f,
                   long_description, setupCalls, run, prevOutput>>

\* long_description = fh.read()
ReadReadme ==
    /\ pc = "read_readme"
    /\ IF readme.mode = BadBytes
       THEN /\ Fail("read_readme")
            /\ UNCHANGED long_description
       ELSE /\ long_description' = Some(readme.value)
            /\ Pass("read_readme")
    /\ UNCHANGED <<environ, versionFile, outWritable, readme, version, f,
                   setupCalls, run, prevOutput>>

\* leaving the second with block
CloseReadme ==
    /\ pc = "close_readme"
    /\ Pass("close_readme")
    /\ UNCHANGED <<environ, versionFile, outWritable, readme, version, f,
                   long_description, setupCalls, run, prevOutput>>

\* setuptools.setup(...): the call is made, and setuptools either accepts
\* the configuration or raises.
Setup ==
    /\ pc = "setup"
    /\ setupCalls' = Append(setupCalls, SetupArgs(version.value, long_description.value))
    /\ \E accepted \in BOOLEAN :
          IF accepted THEN Pass("setup") ELSE Fail("setup")
    /\ UNCHANGED <<environ, versionFile, outWritable, readme, version, f,
                   long_description, run, prevOutput>>

\* The script is run again, as a new process, in the same environment and
\* over the same files.  prevOutput remembers what ./qsharp/version.py held
\* when the current run started.
Invoke ==
    /\ pc \in {"done", "failed"}
    /\ run < MaxRuns
    /\ run' = run + 1
    /\ prevOutput' = versionFile
    /\ pc' = "getenv"
    /\ version' = None
    /\ f' = None
    /\ long_description' = None
    /\ setupCalls' = <<>>
    /\ exc' = "none"
    /\ trace' = <<>>
    /\ UNCHANGED <<environ, versionFile, outWritable, readme>>

Next ==
    \/ GetEnv
    \/ OpenOut
    \/ WriteOut
    \/ CloseOut
    \/ OpenReadme
    \/ ReadReadme
    \/ CloseReadme
    \/ Setup
    \/ Invoke

Spec == Init /\ [][Next]_vars

\* ---------------------------------------------------------------- properties
Executed(step) == \E i \in 1..Len(trace) : trace[i] = step
Occurrences(step) == Cardinality({i \in 1..Len(trace) : trace[i] = step})

\* The write step (open, write, close of ./qsharp/version.py) has passed.
WriteStepPassed == Executed("close_out")

\* The file is the fixed header, then one assignment line
\* __version__ = "s", and nothing else.
HoldsExactly(file, s) ==
    /\ file.present
    /\ LET c == file.value
           assignments == {i \in 1..Len(c) : c[i] = Prefix}
       IN  /\ Cardinality(assignments) = 1
           /\ \E p \in assignments :
                 /\ p = Len(Header) + 1
                 /\ SubSeq(c, 1, p - 1) = Header
                 /\ Len(c) = p + Len(s) + 2
                 /\ SubSeq(c, p + 1, Len(c) - 2) = s
                 /\ c[Len(c) - 1] = QUOTE
                 /\ c[Len(c)] = NL

ReadmeBad == ~readme.present \/ readme.mode # "ok"

\* C1: for every value S of PYTHON_VERSION that is set, once the write step
\* has passed, ./qsharp/version.py is the header followed by the single line
\* __version__ = "S", with no other version value in the file.
C1_FileHoldsEnvVersion ==
    (environ.present /\ WriteStepPassed) => HoldsExactly(versionFile, environ.value)

C1_Witness ==
    /\ environ = Some(<<"1", ".", "1">>)
    /\ prevOutput = Some(VersionPy(<<"9">>))
    /\ WriteStepPassed
    /\ pc = "done"

\* C2: when PYTHON_VERSION is unset, the generated file holds the literal
\* 0.0.0.1 as the value of __version__, and the packaging call is passed the
\* same literal as its version.
C2_UnsetGivesDefault ==
    ~environ.present =>
        /\ WriteStepPassed =>
              HoldsExactly(versionFile, <<"0", ".", "0", ".", "0", ".", "1">>)
        /\ \A i \in 1..Len(setupCalls) :
              setupCalls[i].version = <<"0", ".", "0", ".", "0", ".", "1">>

C2_Witness ==
    /\ ~environ.present
    /\ Len(setupCalls) = 1
    /\ WriteStepPassed

\* C3: when ./README.md is missing or unreadable, the run fails before the
\* packaging call: setuptools.setup is never invoked and the script never
\* reaches or passes that call.
C3_NoSetupWithoutReadme ==
    ReadmeBad =>
        /\ setupCalls = <<>>
        /\ pc \notin {"setup", "done"}
        /\ Executed("open_readme") \/ Executed("read_readme") => pc \in {"read_readme", "failed"}

C3_Witness ==
    /\ ~readme.present
    /\ exc = "open_readme"
    /\ pc = "failed"
    /\ setupCalls = <<>>

\* C4: in every run that reaches the packaging call, importing the
\* generated file gives a __version__ equal to the version passed to the
\* packaging call, for every value of PYTHON_VERSION.
C4_RoundTrip ==
    \A i \in 1..Len(setupCalls) :
        /\ versionFile.present
        /\ Import(versionFile.value) = [ok |-> TRUE, value |-> setupCalls[i].version]

\* C5: running the script twice in the same environment leaves
\* ./qsharp/version.py byte-identical after the second write to what the
\* first run left, whatever the file held before the first run.
C5_SecondRunSameBytes ==
    (run >= 2 /\ WriteStepPassed) =>
        /\ versionFile.present
        /\ versionFile = prevOutput

C5_Witness ==
    /\ run = 2
    /\ WriteStepPassed
    /\ environ = Some(<<"1", QUOTE>>)
    /\ versionFile = prevOutput

\* C6: every packaging call receives exactly one dependency entry,
\* jupyter_client, with no version constraint, whatever the version and the
\* README content.
C6_OneUnpinnedDependency ==
    \A i \in 1..Len(setupCalls) :
        /\ Len(setupCalls[i].install_requires) = 1
        /\ setupCalls[i].install_requires[1].name = "jupyter_client"
        /\ setupCalls[i].install_requires[1].specifier = ""

C6_Witness ==
    /\ Len(setupCalls) = 1
    /\ environ = Some(<<BSLASH, "n">>)
    /\ long_description = Some(<<"# Q# Interoperability for Python\n">>)

\* C7: every failure is fatal: an unwritable output path, a missing or
\* unreadable README and a rejected packaging call each end the run in the
\* failed state, the failed step is the last step executed and was executed
\* once, and after an unwritable output path neither the README read nor
\* the packaging call has happened.
C7_FailureIsFatal ==
    /\ exc # "none" =>
          /\ pc = "failed"
          /\ trace # <<>> /\ trace[Len(trace)] = exc
          /\ Occurrences(exc) = 1
    /\ pc = "failed" => exc \in {"open_out", "open_readme", "read_readme", "setup"}
    /\ (~outWritable /\ Executed("open_out")) =>
          /\ pc = "failed" /\ exc = "open_out"
          /\ ~Executed("open_readme") /\ ~Executed("read_readme") /\ ~Executed("setup")
          /\ long_description = None /\ setupCalls = <<>>
    /\ (ReadmeBad /\ Executed("read_readme")) => pc = "failed"
    /\ (ReadmeBad /\ Executed("open_readme") /\ readme.mode # BadBytes) => pc = "failed"

C7_Witness ==
    /\ pc = "failed"
    /\ exc = "setup"
    /\ Len(setupCalls) = 1
    /\ run = 2

\* C8: the steps of a run execute in the fixed order getenv, open/write/close
\* of the output file, open/read/close of the README, packaging call, each
\* at most once; the output file is fully written and closed before the
\* README is opened, and the packaging call is made at most once and only
\* after both file operations succeeded.
C8_FixedOrder ==
    LET order == << "getenv", "open_out", "write_out", "close_out",
                    "open_readme", "read_readme", "close_readme", "setup" >>
    IN  /\ Len(trace) <= Len(order)
        /\ \A i \in 1..Len(trace) : trace[i] = order[i]
        /\ Len(setupCalls) <= 1
        /\ Executed("open_readme") =>
              /\ ~f.present
              /\ versionFile.present
              /\ HoldsExactly(versionFile, version.value)
        /\ Executed("setup") =>
              /\ Len(setupCalls) = 1
              /\ long_description = Some(readme.value)
              /\ HoldsExactly(versionFile, version.value)

C8_Witness ==
    /\ pc = "done"
    /\ Len(trace) = 8
    /\ Len(setupCalls) = 1

\* C9: a run that fails at the README read or at the packaging call has
\* already overwritten ./qsharp/version.py with the current version string;
\* the content the file had before the run is gone.
C9_FailureLeavesNewFile ==
    (pc = "failed" /\ exc \in {"open_readme", "read_readme", "setup"}) =>
        /\ HoldsExactly(versionFile, version.value)
        /\ prevOutput # Some(VersionPy(version.value)) => versionFile # prevOutput

C9_Witness ==
    /\ pc = "failed"
    /\ exc = "open_readme"
    /\ run = 1
    /\ prevOutput = Some(<<"garbage\n">>)
    /\ versionFile # prevOutput

\* C10: PYTHON_VERSION set to the empty string is not replaced by the
\* fallback: the version written and the version passed to the packaging
\* call are the empty string; and at every point of a run the version
\* variable and the version of the packaging call are the value read from
\* the environment.
C10_EmptyIsNotAbsent ==
    /\ environ = Some(<<>>) =>
          /\ version.present => version.value = <<>>
          /\ WriteStepPassed => HoldsExactly(versionFile, <<>>)
          /\ \A i \in 1..Len(setupCalls) : setupCalls[i].version = <<>>
    /\ environ.present =>
          /\ version.present => version.value = environ.value
          /\ \A i \in 1..Len(setupCalls) : setupCalls[i].version = environ.value

C10_Witness ==
    /\ environ = Some(<<>>)
    /\ Len(setupCalls) = 1
    /\ WriteStepPassed
    /\ pc = "done"

====
